---- MODULE Spec2Model ----
(***************************************************************************)
(* The SSH session manager of hyperbolic-mcp (class SSHManager) as a state *)
(* machine.  The repository carries two revisions of the class:            *)
(*   "ssh2"     src/unnamed/part_000   (ssh2 Client, event handlers and a  *)
(*                                      connection timer)                  *)
(*   "node-ssh" src/src/ssh-manager.ts (NodeSSH, awaited promises)         *)
(* The revision is fixed in Init; every action follows the code of the     *)
(* revision that is running.                                               *)
(*                                                                         *)
(* JavaScript scheduling: a call runs synchronously up to its first await; *)
(* the continuation is a microtask, which runs before any timer or         *)
(* transport event (macrotask) but after the synchronous part of every     *)
(* call issued in the same tick.                                           *)
(***************************************************************************)
EXTENDS Integers, Sequences, FiniteSets, TLC

\* ---------------------------------------------------------------- bounds
MaxCalls == 2       \* connect calls issued (each creates one client)
MaxExecs == 1       \* execute calls issued
MaxClose == 2       \* close calls one client receives from disconnect()
MaxChunks == 1      \* data chunks one command delivers per stream
MaxSessionExecs == 2 \* execute calls issued on the single session of SpecExec
MaxRents == 2       \* rent-gpu-instance calls issued
MaxGpus == 2        \* GPUs of a marketplace node
MaxMarket == 2      \* entries of the marketplace list
MaxProbes == 2      \* probe commands sent by isConnected()
MaxTerms == 2       \* terminate-gpu-instance calls issued
MaxInstances == 2   \* entries of the user's list of instances

CallIds == 1..MaxCalls
ExecIds == 1..MaxExecs
SessionExecIds == 1..MaxSessionExecs
RentIds == 1..MaxRents
TermIds == 1..MaxTerms

Variants == {"ssh2", "node-ssh"}

\* (host, username) pairs passed to connect
Targets == {<<"hostA", "userA">>, <<"hostB", "userB">>}

\* What the credential inputs of a connect call amount to:
\*   password       a password was passed
\*   keyOK          no password, the key file exists and parses
\*   keyMissing     no password, fs.existsSync is false
\*   keyUnreadable  no password, the file exists, fs.readFileSync throws
\*   keyBad         no password, the file is read, the transport's connect
\*                  refuses it (unparsable or encrypted key)
Creds == {"password", "keyOK", "keyMissing", "keyUnreadable", "keyBad"}

VARIABLES
    variant,      \* which revision of SSHManager runs
    sshClient,    \* this.sshClient: 0 is null, k is the client made by call k
    connected,    \* this.connected
    host,         \* this.host ("null" is null)
    username,     \* this.username
    calls,        \* the connect calls: position, arguments, outcome
    client,       \* the transport objects (new Client() / new NodeSSH())
    timer,        \* the setTimeout of each connect attempt (ssh2 revision)
    execs,        \* the execute calls (`on`: the client held at the call)
    chanOpens,    \* channel-open calls made on a transport, per execute call
    probes,       \* channel-open calls made by isConnected()'s probe
    crashed,      \* an exception escaped a timer callback
    okCalls,      \* connect calls that returned success and have not been
                  \* followed by a connect call, a disconnect call or a fault
    revision,     \* which revision of the rent-gpu-instance handler runs
    market,       \* the marketplace's live list of instances
    rents,        \* the rent-gpu-instance calls
    keyIn,        \* credential inputs of a connect attempt and its environment
    keyOut,       \* what the credential stage of that attempt did
    probing,      \* probe commands of isConnected() that are in flight
    unhandled,    \* probe rejections that reached no handler
    answer,       \* what the last isConnected() / getConnectionInfo() call
                  \* returned
    instances,    \* the ids in the user's own list of instances, as the
                  \* service holds it
    terms,        \* the terminate-gpu-instance calls
    discAt        \* how many connect calls had been made when ssh-disconnect
                  \* last returned its success response (-1: it never has)

\* the variables of the rental handler and of the credential stage
rentVars == <<revision, market, rents>>
keyVars == <<keyIn, keyOut>>
\* the variables of the status reads
infoVars == <<probing, unhandled, answer>>
\* the variables of the terminate handler
termVars == <<instances, terms>>
\* the variables of the SSH tool handlers
toolVars == <<discAt>>

vars == <<variant, sshClient, connected, host, username, calls, client, timer,
          execs, chanOpens, probes, crashed, okCalls, rentVars, keyVars,
          infoVars, termVars, toolVars>>

\* ------------------------------------------------------------ the manager
NoCall == [pc |-> "unused", target |-> <<"null", "null">>, cred |-> "none",
           discThrew |-> FALSE, prev |-> 0, outcome |-> "none", how |-> "none",
           response |-> "none"]

NoClient == [phase |-> "absent", closes |-> 0, down |-> FALSE]

NoExec == [pc |-> "unused", on |-> 0, out |-> <<>>, err |-> <<>>,
           nOut |-> 0, nErr |-> 0, cut |-> FALSE, response |-> "none",
           result |-> [kind |-> "none", stderr |-> <<>>, stdout |-> <<>>]]

\* a rent-gpu-instance call that has not been made
NoRent == [pc |-> "unused", cluster_name |-> "none", node_name |-> "none",
           gpu_count |-> 0, fetches |-> 0, creates |-> 0, waits |-> 0,
           result |-> [kind |-> "none", requested |-> 0, available |-> 0]]

\* the rental handler is not in use
RentIdle ==
    /\ revision = "guarded"
    /\ market = <<>>
    /\ rents = [r \in RentIds |-> NoRent]

\* a terminate-gpu-instance call that has not been made
NoTerm == [pc |-> "unused", instance_id |-> "none", fetches |-> 0, posts |-> 0,
           posted |-> "none", result |-> [kind |-> "none", isError |-> FALSE]]

\* the terminate handler is not in use
TermIdle ==
    /\ instances = <<>>
    /\ terms = [t \in TermIds |-> NoTerm]

\* Text is a sequence of tokens; "~" is the tilde character, "/" the
\* separator. An argument or environment variable that is not there:
Absent == <<"undefined">>

\* no connect attempt: no credential inputs, no environment
NoKeyIn == [password |-> Absent, privateKeyPath |-> Absent, envKeyPath |-> Absent,
            home |-> Absent, files |-> {}, unreadable |-> FALSE]

\* the credential stage has not run
NoKeyOut == [outcome |-> "none", how |-> "none",
             options |-> [password |-> Absent, privateKey |-> Absent],
             checked |-> <<>>, read |-> <<>>, named |-> Absent,
             connect |-> FALSE]

\* no credential stage has been set up
KeyIdle ==
    /\ keyIn = NoKeyIn
    /\ keyOut = NoKeyOut

\* The stored-field part of isConnected(): both revisions test the flag and
\* the client reference.
IsConnected == connected /\ sshClient # 0

\* getConnectionInfo() that reports the session without asking isConnected()
GetConnectionInfoAlways ==
    <<"connected", host, username>>

\* getConnectionInfo(): <<"connected", host, username>> or <<"not connected">>
GetConnectionInfo ==
    IF IsConnected THEN <<"connected", host, username>> ELSE <<"not connected">>

\* A connect attempt is in flight on the client the manager holds
Connecting ==
    /\ ~IsConnected
    /\ \E k \in CallIds : calls[k].pc = "pending" /\ sshClient = k

\* Session.state of the specification, read off the fields
State ==
    IF IsConnected THEN "Connected"
    ELSE IF Connecting THEN "Connecting"
    ELSE "Disconnected"

\* A continuation of `await this.disconnect()` is queued: timers and transport
\* events wait for it
MicrotaskPending == \E k \in CallIds : calls[k].pc = "awaitDisconnect"

\* transports that have been opened and not closed
OpenTransports ==
    {c \in CallIds : client[c].phase \in {"opening", "ready"} /\ ~client[c].down}

\* sshClient.end() / sshClient.dispose() on client record c
CloseOf(c, throws) ==
    [c EXCEPT !.closes = @ + 1, !.down = (@ \/ ~throws)]

\* the execute calls, with those in flight marked as overtaken by a
\* disconnect() call (`cut` records it; the code keeps no such mark)
ExecsCut ==
    [e \in SessionExecIds |->
        IF execs[e].pc \in {"opening", "streaming"}
        THEN [execs[e] EXCEPT !.cut = TRUE]
        ELSE execs[e]]

\* disconnect() lets the exception of the close operation escape: end() is
\* called unguarded in the ssh2 revision
DisconnectFaults(throws) == throws /\ variant = "ssh2"

\* disconnect() with the assignment to this.host left out
DoDisconnectKeepsHost(throws) ==
    /\ throws => sshClient # 0
    /\ execs' = ExecsCut
    /\ client' = IF sshClient # 0
                 THEN [client EXCEPT ![sshClient] = CloseOf(@, throws)]
                 ELSE client
    /\ IF DisconnectFaults(throws)
       THEN UNCHANGED <<connected, host, username>>
       ELSE /\ connected' = FALSE
            /\ host' = host
            /\ username' = "null"

\* The body of disconnect(). `throws`: the transport's close operation throws.
\* ssh2 revision: end() is unguarded, so the assignments after it are skipped.
\* node-ssh revision: dispose() is wrapped in try/catch.
DoDisconnect(throws) ==
    /\ throws => sshClient # 0
    /\ execs' = ExecsCut
    /\ client' = IF sshClient # 0
                 THEN [client EXCEPT ![sshClient] = CloseOf(@, throws)]
                 ELSE client
    /\ IF DisconnectFaults(throws)
       THEN UNCHANGED <<connected, host, username>>
       ELSE /\ connected' = FALSE
            /\ host' = "null"
            /\ username' = "null"

\* The string connect() settles with, as text; its fixed opening is one token.
ConnectText(out) ==
    CASE out = "success" -> <<"Successfully connected to ", "host", " as ", "user">>
      [] out = "keyError" -> <<"SSH Key Error", ": ", "message">>
      [] out = "timeout" -> <<"SSH Connection Error", ": Connection timeout after ">>
      [] OTHER -> <<"SSH Connection Error", ": ", "message">>

\* String.prototype.startsWith for an opening that is one token
Begins(text, opening) == text # <<>> /\ Head(text) = opening

\* a classification that tests for "SSH Connection Error" alone
ConnectResponseOnePrefix(out, hw) ==
    IF hw = "rejected" THEN "error"
    ELSE IF Begins(ConnectText(out), "SSH Connection Error")
    THEN "error" ELSE "success"

\* The status of the ssh-connect response, and its isError mark: the catch
\* block answers a rejected promise, the prefix test a returned string.
ConnectResponse(out, hw) ==
    IF hw = "rejected" THEN "error"
    ELSE IF \/ Begins(ConnectText(out), "SSH Connection Error")
            \/ Begins(ConnectText(out), "SSH Key Error")
    THEN "error" ELSE "success"

\* The call's promise settles. The credential inputs are locals of the call
\* and are gone once connect() has passed them on.
Settle(c, out, hw) ==
    [c EXCEPT !.pc = "done", !.cred = "none", !.outcome = out, !.how = hw,
              !.response = ConnectResponse(out, hw)]

\* no status read has been made
NoAnswer == [op |-> "none", value |-> <<>>]

\* the fields of the singleton after construction
ManagerInit ==
    /\ sshClient = 0
    /\ connected = FALSE
    /\ host = "null"
    /\ username = "null"
    /\ calls = [k \in CallIds |-> NoCall]
    /\ client = [k \in CallIds |-> NoClient]
    /\ timer = [k \in CallIds |-> "unset"]
    /\ execs = [e \in SessionExecIds |-> NoExec]
    /\ chanOpens = [e \in SessionExecIds |-> 0]
    /\ probes = 0
    /\ crashed = FALSE
    /\ okCalls = {}
    /\ probing = 0
    /\ unhandled = 0
    /\ answer = NoAnswer
    /\ discAt = -1

Init ==
    /\ variant \in Variants
    /\ ManagerInit
    /\ RentIdle
    /\ KeyIdle
    /\ TermIdle

\* connect(), up to `await this.disconnect()`; `throws` as in DoDisconnect
ConnectCallWith(k, t, cr, throws) ==
    /\ ~crashed
    /\ calls[k].pc = "unused"
    /\ \A j \in CallIds : j < k => calls[j].pc # "unused"
    /\ DoDisconnect(throws)
    /\ calls' = [calls EXCEPT ![k] =
           [NoCall EXCEPT !.pc = "awaitDisconnect", !.target = t, !.cred = cr,
                          !.discThrew = DisconnectFaults(throws),
                          !.prev = IF IsConnected THEN sshClient ELSE 0]]
    /\ okCalls' = {}
    /\ UNCHANGED <<rentVars, keyVars, infoVars, termVars, toolVars>>
    /\ UNCHANGED <<variant, sshClient, timer, chanOpens, probes, crashed>>

ConnectCall(k, t, cr) == ConnectCallWith(k, t, cr, FALSE)

\* a credential stage that passes over a missing key file when an earlier
\* session was replaced by the call
KeyFileMissingUnlessReplacing(k) ==
    calls[k].cred = "keyMissing" /\ calls[k].prev = 0

\* `!fs.existsSync(expandedKeyPath)` in the credential stage of attempt k
KeyFileMissing(k) ==
    calls[k].cred = "keyMissing"

\* connect(), from the continuation of the await to the first suspension or
\* return
ConnectContinue(k) ==
    /\ ~crashed
    /\ calls[k].pc = "awaitDisconnect"
    /\ \A j \in CallIds : j < k => calls[j].pc # "awaitDisconnect"
    /\ IF calls[k].discThrew
       THEN \* the rejection of disconnect() lands in connect's catch block
            /\ connected' = FALSE
            /\ calls' = [calls EXCEPT ![k] = Settle(@, "connError", "returned")]
            /\ UNCHANGED <<sshClient, client, timer>>
       ELSE /\ sshClient' = k
            /\ CASE KeyFileMissing(k) ->
                      /\ client' = [client EXCEPT ![k].phase = "created"]
                      /\ calls' = [calls EXCEPT ![k] = Settle(@, "keyError", "returned")]
                      /\ UNCHANGED <<connected, timer>>
                 [] calls[k].cred = "keyUnreadable" ->
                      /\ client' = [client EXCEPT ![k].phase = "created"]
                      /\ IF variant = "ssh2"
                         THEN /\ calls' = [calls EXCEPT ![k] =
                                              Settle(@, "keyError", "returned")]
                              /\ UNCHANGED <<connected, timer>>
                         ELSE /\ connected' = FALSE
                              /\ calls' = [calls EXCEPT ![k] =
                                              Settle(@, "connError", "returned")]
                              /\ UNCHANGED timer
                 [] calls[k].cred = "keyBad" ->
                      /\ client' = [client EXCEPT ![k].phase = "created"]
                      /\ IF variant = "ssh2"
                         THEN \* Client.connect throws inside the Promise executor
                              /\ timer' = [timer EXCEPT ![k] = "armed"]
                              /\ calls' = [calls EXCEPT ![k] =
                                              Settle(@, "connError", "rejected")]
                              /\ UNCHANGED connected
                         ELSE /\ connected' = FALSE
                              /\ calls' = [calls EXCEPT ![k] =
                                              Settle(@, "connError", "returned")]
                              /\ UNCHANGED timer
                 [] OTHER ->
                      /\ client' = [client EXCEPT ![k].phase = "opening"]
                      /\ timer' = IF variant = "ssh2"
                                  THEN [timer EXCEPT ![k] = "armed"]
                                  ELSE timer
                      /\ calls' = [calls EXCEPT ![k].pc = "pending",
                                                ![k].cred = "none"]
                      /\ UNCHANGED connected
    /\ UNCHANGED <<rentVars, keyVars, infoVars, termVars, toolVars>>
    /\ UNCHANGED <<variant, host, username, execs, chanOpens, probes,
                   crashed, okCalls>>

\* the assignments of the ready handler / of the lines after the awaited connect
ReadyHandler(k) ==
    /\ connected' = TRUE
    /\ host' = calls[k].target[1]
    /\ username' = calls[k].target[2]

\* The transport of attempt k signals ready. The handlers are attached with
\* .on() and never removed, and end() does not cancel a handshake whose last
\* packet is in flight: a client that was ended while opening may still
\* deliver its signal.
Ready(k) ==
    /\ ~crashed
    /\ ~MicrotaskPending
    /\ client[k].phase = "opening"
    /\ client' = [client EXCEPT ![k].phase = "ready"]
    /\ timer' = IF variant = "ssh2" /\ timer[k] = "armed"
                THEN [timer EXCEPT ![k] = "cleared"]
                ELSE timer
    /\ ReadyHandler(k)
    /\ IF calls[k].pc = "pending"
       THEN /\ calls' = [calls EXCEPT ![k] = Settle(@, "success", "returned")]
            /\ okCalls' = okCalls \cup {k}
       ELSE UNCHANGED <<calls, okCalls>>
    /\ UNCHANGED <<rentVars, keyVars, infoVars, termVars, toolVars>>
    /\ UNCHANGED <<variant, sshClient, execs, chanOpens, probes,
                   crashed>>

\* The transport of attempt k signals a fault (an "error" event; the rejection
\* of the awaited connect).
Fault(k) ==
    /\ ~crashed
    /\ ~MicrotaskPending
    /\ client[k].phase \in {"opening", "ready"}
    /\ client' = [client EXCEPT ![k].phase = "faulted", ![k].down = TRUE]
    /\ IF variant = "ssh2"
       THEN /\ timer' = IF timer[k] = "armed"
                        THEN [timer EXCEPT ![k] = "cleared"]
                        ELSE timer
            /\ connected' = FALSE
            /\ calls' = IF calls[k].pc = "pending"
                        THEN [calls EXCEPT ![k] = Settle(@, "connError", "rejected")]
                        ELSE calls
       ELSE /\ UNCHANGED timer
            /\ IF calls[k].pc = "pending"
               THEN /\ connected' = FALSE
                    /\ calls' = [calls EXCEPT ![k] =
                                    Settle(@, "connError", "returned")]
               ELSE UNCHANGED <<connected, calls>>
    /\ okCalls' = {}
    /\ UNCHANGED <<rentVars, keyVars, infoVars, termVars, toolVars>>
    /\ UNCHANGED <<variant, sshClient, host, username, execs, chanOpens, probes,
                   crashed>>

\* The peer ends the connection of attempt k without an error: the transport
\* emits "end" and "close", and connect() has registered a handler for neither
\* (ssh2 revision: only "ready" and "error"; node-ssh revision: none).
Drop(k) ==
    /\ ~crashed
    /\ ~MicrotaskPending
    /\ client[k].phase = "ready"
    /\ ~client[k].down
    /\ client' = [client EXCEPT ![k].down = TRUE]
    /\ UNCHANGED <<rentVars, keyVars, infoVars, termVars, toolVars>>
    /\ UNCHANGED <<variant, sshClient, connected, host, username, calls, timer,
                   execs, chanOpens, probes, crashed, okCalls>>

\* The setTimeout callback of attempt k (ssh2 revision); `throws`: the end()
\* it calls throws, and the exception escapes the callback.
TimerFireWith(k, throws) ==
    /\ ~crashed
    /\ ~MicrotaskPending
    /\ variant = "ssh2"
    /\ timer[k] = "armed"
    /\ timer' = [timer EXCEPT ![k] = "fired"]
    /\ IF sshClient # 0 /\ ~connected
       THEN /\ client' = [client EXCEPT ![sshClient] = CloseOf(@, throws)]
            /\ crashed' = throws
            /\ calls' = IF ~throws /\ calls[k].pc = "pending"
                        THEN [calls EXCEPT ![k] = Settle(@, "timeout", "rejected")]
                        ELSE calls
       ELSE /\ ~throws
            /\ UNCHANGED <<client, crashed, calls>>
    /\ UNCHANGED <<rentVars, keyVars, infoVars, termVars, toolVars>>
    /\ UNCHANGED <<variant, sshClient, connected, host, username, execs,
                   chanOpens, probes, okCalls>>

TimerFire(k) == TimerFireWith(k, FALSE)

\* a disconnect() call during which the transport's close operation throws
\* (throws = TRUE) or does not
DisconnectWith(throws) ==
    /\ ~crashed
    /\ sshClient # 0 => client[sshClient].closes < MaxClose
    /\ DoDisconnect(throws)
    /\ okCalls' = {}
    /\ UNCHANGED <<rentVars, keyVars, infoVars, termVars, toolVars>>
    /\ UNCHANGED <<variant, sshClient, calls, timer, chanOpens, probes,
                   crashed>>

\* disconnect()
DisconnectCall == DisconnectWith(FALSE)

\* ----------------------------------------------------------------- execute
\* output text: a sequence of characters; " " is white space
ChunkValues == {<<"x">>, <<" ">>}

RECURSIVE TrimLeft(_)
TrimLeft(s) ==
    IF s # <<>> /\ Head(s) = " " THEN TrimLeft(Tail(s)) ELSE s

RECURSIVE TrimRight(_)
TrimRight(s) ==
    IF s # <<>> /\ s[Len(s)] = " " THEN TrimRight(SubSeq(s, 1, Len(s) - 1)) ELSE s

\* String.prototype.trim, which NodeSSH.execCommand applies to both streams
Trim(s) == TrimRight(TrimLeft(s))

\* the text execute() resolves with when the channel closes
CommandResult(out, err) ==
    IF err # <<>>
    THEN [kind |-> "ErrorOutput", stderr |-> err, stdout |-> out]
    ELSE [kind |-> "Output", stderr |-> <<>>, stdout |-> out]

Plain(kind) == [kind |-> kind, stderr |-> <<>>, stdout |-> <<>>]

\* The string execute() resolves with, as text. A fixed piece of a message is
\* one token; the tokens "Error:", "SSH Command Error:" and "SSH Execution
\* Error:" stand for those characters.
ResultText(res) ==
    CASE res.kind = "NotConnected" ->
           <<"Error:", " No active SSH connection. Please connect first.">>
      [] res.kind = "ErrorOutput" ->
           <<"Error:", " ">> \o res.stderr \o <<"\nOutput: ">> \o res.stdout
      [] res.kind = "CommandError" -> <<"SSH Command Error:", " ", "message">>
      [] res.kind = "ExecutionError" -> <<"SSH Execution Error:", " ", "message">>
      [] OTHER -> res.stdout

\* String.prototype.startsWith for a prefix that is one token
StartsWith(text, prefix) == text # <<>> /\ Head(text) = prefix

\* The status of the remote-shell response, and its isError mark, for the
\* result of execute(). The handler's own isConnected() test comes right
\* before the call of execute() and answers as execute()'s guard does; its
\* response for "not connected" is an error as well.
ShellResponse(res) ==
    IF \/ StartsWith(ResultText(res), "Error:")
       \/ StartsWith(ResultText(res), "SSH Command Error:")
    THEN "error" ELSE "success"

\* execute() resolves with res and remote-shell answers
Resolved(x, res) ==
    [x EXCEPT !.pc = "done", !.result = res, !.response = ShellResponse(res)]

\* execute calls whose command channel is open: the stream has been handed to
\* the callback and has not signalled close
OpenChannels == {e \in SessionExecIds : execs[e].pc = "streaming"}

\* execute() guarded by the client reference alone
ExecuteGuardClientOnly == sshClient # 0

\* The guard of execute(): `!this.isConnected() || !this.sshClient`

ExecuteGuard == IsConnected /\ sshClient # 0

\* execute(), up to its first suspension or return
ExecuteCall(e) ==
    /\ ~crashed
    /\ execs[e].pc = "unused"
    /\ \A j \in ExecIds : j < e => execs[j].pc # "unused"
    /\ IF ~ExecuteGuard
       THEN /\ execs' = [execs EXCEPT ![e] =
                            Resolved([@ EXCEPT !.on = sshClient], Plain("NotConnected"))]
            /\ UNCHANGED <<chanOpens, probes, probing>>
       ELSE IF variant = "ssh2"
       THEN \* sshClient.exec(command, callback); it throws on a client that
            \* is not connected
            /\ chanOpens' = [chanOpens EXCEPT ![e] = @ + 1]
            /\ UNCHANGED <<probes, probing>>
            /\ IF sshClient = 0 \/ client[sshClient].phase # "ready"
                               \/ client[sshClient].down
               THEN execs' = [execs EXCEPT ![e] =
                              Resolved([@ EXCEPT !.on = sshClient], Plain("ExecutionError"))]
               ELSE execs' = [execs EXCEPT ![e].pc = "opening", ![e].on = sshClient]
       ELSE \* isConnected() has sent its probe command; then
            \* await sshClient.execCommand(command)
            /\ probes' = probes + 1
            /\ probing' = probing + 1
            /\ chanOpens' = [chanOpens EXCEPT ![e] = @ + 2]
            /\ execs' = [execs EXCEPT ![e].pc = "opening", ![e].on = sshClient]
    /\ UNCHANGED <<rentVars, keyVars, termVars, toolVars, unhandled, answer>>
    /\ UNCHANGED <<variant, sshClient, connected, host, username, calls, client,
                   timer, crashed, okCalls>>

\* The channel could not be opened: exec's callback gets an error (ssh2), the
\* awaited execCommand rejects (node-ssh).
ExecOpenFail(e) ==
    /\ ~crashed
    /\ ~MicrotaskPending
    /\ execs[e].pc = "opening"
    /\ connected' = FALSE
    /\ execs' = [execs EXCEPT ![e] = Resolved(@, Plain("CommandError"))]
    /\ okCalls' = {}
    /\ UNCHANGED <<rentVars, keyVars, infoVars, termVars, toolVars>>
    /\ UNCHANGED <<variant, sshClient, host, username, calls, client, timer,
                   chanOpens, probes, crashed>>

\* The channel is open: the stream handlers are attached.
ExecStream(e) ==
    /\ ~crashed
    /\ ~MicrotaskPending
    /\ execs[e].pc = "opening"
    /\ execs[e].on # 0
    /\ client[execs[e].on].phase = "ready"
    /\ ~client[execs[e].on].down
    /\ execs' = [execs EXCEPT ![e].pc = "streaming"]
    /\ UNCHANGED <<rentVars, keyVars, infoVars, termVars, toolVars>>
    /\ UNCHANGED <<variant, sshClient, connected, host, username, calls, client,
                   timer, chanOpens, probes, crashed, okCalls>>

\* a chunk arrives on the output stream
ExecStdout(e, chunk) ==
    /\ ~crashed
    /\ ~MicrotaskPending
    /\ execs[e].pc = "streaming"
    /\ execs[e].nOut < MaxChunks
    /\ execs' = [execs EXCEPT ![e].out = @ \o chunk, ![e].nOut = @ + 1]
    /\ UNCHANGED <<rentVars, keyVars, infoVars, termVars, toolVars>>
    /\ UNCHANGED <<variant, sshClient, connected, host, username, calls, client,
                   timer, chanOpens, probes, crashed, okCalls>>

\* a chunk arrives on the error stream
ExecStderr(e, chunk) ==
    /\ ~crashed
    /\ ~MicrotaskPending
    /\ execs[e].pc = "streaming"
    /\ execs[e].nErr < MaxChunks
    /\ execs' = [execs EXCEPT ![e].err = @ \o chunk, ![e].nErr = @ + 1]
    /\ UNCHANGED <<rentVars, keyVars, infoVars, termVars, toolVars>>
    /\ UNCHANGED <<variant, sshClient, connected, host, username, calls, client,
                   timer, chanOpens, probes, crashed, okCalls>>

\* the channel's close event: execute() resolves
ExecClose(e) ==
    /\ ~crashed
    /\ ~MicrotaskPending
    /\ execs[e].pc = "streaming"
    /\ execs' = [execs EXCEPT ![e] =
                   Resolved([@ EXCEPT !.out = <<>>, !.err = <<>>,
                                      !.nOut = 0, !.nErr = 0],
                            IF variant = "ssh2"
                            THEN CommandResult(execs[e].out, execs[e].err)
                            ELSE CommandResult(Trim(execs[e].out),
                                               Trim(execs[e].err)))]
    /\ UNCHANGED <<rentVars, keyVars, infoVars, termVars, toolVars>>
    /\ UNCHANGED <<variant, sshClient, connected, host, username, calls, client,
                   timer, chanOpens, probes, crashed, okCalls>>

\* ------------------------------------------------------------ status reads
\* isConnected() as a call. ssh2 revision: reads the two fields. node-ssh
\* revision: on a manager whose fields say connected it calls
\* execCommand("echo 1") without awaiting it and returns true; execCommand is
\* an async method, so it hands back a promise and never throws into the
\* try block.
IsConnectedRead ==
    /\ probes' = IF variant = "node-ssh" /\ IsConnected THEN probes + 1 ELSE probes
    /\ probing' = IF variant = "node-ssh" /\ IsConnected THEN probing + 1 ELSE probing
    /\ UNCHANGED <<sshClient, connected, host, username>>

\* the frame of a status read
InfoFrame ==
    /\ UNCHANGED <<rentVars, keyVars, termVars, toolVars>>
    /\ UNCHANGED <<variant, calls, client, timer, execs, chanOpens, crashed,
                   okCalls, unhandled>>

\* a caller evaluates isConnected()
IsConnectedCall ==
    /\ ~crashed
    /\ probes < MaxProbes
    /\ IsConnectedRead
    /\ answer' = [op |-> "isConnected",
                  value |-> IF IsConnected THEN <<"true">> ELSE <<"false">>]
    /\ InfoFrame

\* a caller evaluates getConnectionInfo()
GetConnectionInfoCall ==
    /\ ~crashed
    /\ probes < MaxProbes
    /\ IsConnectedRead
    /\ answer' = [op |-> "getConnectionInfo", value |-> GetConnectionInfo]
    /\ InfoFrame

\* A probe command's promise rejects. Nobody holds the promise: the catch
\* block of isConnected() was left when the method returned.
ProbeFail ==
    /\ ~crashed
    /\ ~MicrotaskPending
    /\ probing > 0
    /\ probing' = probing - 1
    /\ unhandled' = unhandled + 1
    /\ UNCHANGED <<rentVars, keyVars, termVars, toolVars, answer>>
    /\ UNCHANGED <<variant, sshClient, connected, host, username, calls, client,
                   timer, execs, chanOpens, probes, crashed, okCalls>>

\* a probe command's promise resolves; its value is dropped
ProbeOk ==
    /\ ~crashed
    /\ ~MicrotaskPending
    /\ probing > 0
    /\ sshClient # 0
    /\ client[sshClient].phase = "ready"
    /\ ~client[sshClient].down
    /\ probing' = probing - 1
    /\ UNCHANGED <<rentVars, keyVars, termVars, toolVars, unhandled, answer>>
    /\ UNCHANGED <<variant, sshClient, connected, host, username, calls, client,
                   timer, execs, chanOpens, probes, crashed, okCalls>>

Next ==
    \/ \E k \in CallIds, t \in Targets, cr \in Creds : ConnectCall(k, t, cr)
    \/ \E k \in CallIds : ConnectContinue(k)
    \/ \E k \in CallIds : Ready(k)
    \/ \E k \in CallIds : Fault(k)
    \/ \E k \in CallIds : TimerFire(k)
    \/ DisconnectCall
    \/ \E e \in ExecIds : ExecuteCall(e)
    \/ \E e \in ExecIds : ExecOpenFail(e)
    \/ \E e \in ExecIds : ExecStream(e)
    \/ \E e \in ExecIds, ch \in ChunkValues : ExecStdout(e, ch)
    \/ \E e \in ExecIds, ch \in ChunkValues : ExecStderr(e, ch)
    \/ \E e \in ExecIds : ExecClose(e)

Spec == Init /\ [][Next]_vars

\* The same manager over a transport whose close operation may throw.
NextCloseFault ==
    \/ Next
    \/ \E k \in CallIds, t \in Targets, cr \in Creds : ConnectCallWith(k, t, cr, TRUE)
    \/ \E k \in CallIds : TimerFireWith(k, TRUE)
    \/ DisconnectWith(TRUE)

SpecCloseFault == Init /\ [][NextCloseFault]_vars

\* One session and the execute calls made on it: a single connect call with a
\* password, any number of disconnect calls, MaxSessionExecs execute calls,
\* over a connection that the peer may end.
NextExec ==
    \/ ConnectCall(1, <<"hostA", "userA">>, "password")
    \/ ConnectContinue(1)
    \/ Ready(1)
    \/ Fault(1)
    \/ Drop(1)
    \/ TimerFire(1)
    \/ DisconnectCall
    \/ \E e \in SessionExecIds : ExecuteCall(e)
    \/ \E e \in SessionExecIds : ExecOpenFail(e)
    \/ \E e \in SessionExecIds : ExecStream(e)
    \/ \E e \in SessionExecIds, ch \in ChunkValues : ExecStdout(e, ch)
    \/ \E e \in SessionExecIds, ch \in ChunkValues : ExecStderr(e, ch)
    \/ \E e \in SessionExecIds : ExecClose(e)

SpecExec == Init /\ [][NextExec]_vars

\* what a command can write to its output stream when the text matters to
\* remote-shell: the chunks of ChunkValues, and a chunk that begins "Error:"
ShellChunks == ChunkValues \cup {<<"Error:">>}

\* The session of SpecExec with commands that write such text.
NextShell ==
    \/ ConnectCall(1, <<"hostA", "userA">>, "password")
    \/ ConnectContinue(1)
    \/ Ready(1)
    \/ Fault(1)
    \/ Drop(1)
    \/ TimerFire(1)
    \/ DisconnectCall
    \/ \E e \in SessionExecIds : ExecuteCall(e)
    \/ \E e \in SessionExecIds : ExecOpenFail(e)
    \/ \E e \in SessionExecIds : ExecStream(e)
    \/ \E e \in SessionExecIds, ch \in ShellChunks : ExecStdout(e, ch)
    \/ \E e \in SessionExecIds, ch \in ChunkValues : ExecStderr(e, ch)
    \/ \E e \in SessionExecIds : ExecClose(e)

SpecShell == Init /\ [][NextShell]_vars

\* The connect calls under the scheduling the runtime guarantees. A queued
\* continuation runs and an armed timer fires; in the node-ssh revision the
\* awaited connect of a pending call settles, because the library rejects it
\* when its own handshake timer fires or the connection closes. When a
\* transport signals in the ssh2 revision is up to the peer.
NextLive ==
    \/ \E k \in CallIds, cr \in Creds : ConnectCall(k, <<"hostA", "userA">>, cr)
    \/ \E k \in CallIds : ConnectContinue(k)
    \/ \E k \in CallIds : Ready(k)
    \/ \E k \in CallIds : Fault(k)
    \/ \E k \in CallIds : TimerFire(k)
    \/ DisconnectCall

LibrarySettles(k) ==
    /\ variant = "node-ssh"
    /\ calls[k].pc = "pending"
    /\ Fault(k)

SpecLive ==
    /\ Init
    /\ [][NextLive]_vars
    /\ \A k \in CallIds : WF_vars(ConnectContinue(k))
    /\ \A k \in CallIds : WF_vars(TimerFire(k))
    /\ \A k \in CallIds : WF_vars(LibrarySettles(k))

\* the connect calls made so far
NumCalls == Cardinality({k \in CallIds : calls[k].pc # "unused"})

\* The ssh-disconnect handler. It asks isConnected() first and, when that is
\* false, answers success without calling disconnect(); otherwise it awaits
\* disconnect() and answers success, or error when disconnect() rejected.
SshDisconnectTool(throws) ==
    /\ ~crashed
    /\ probes < MaxProbes
    /\ sshClient # 0 => client[sshClient].closes < MaxClose
    /\ IF ~IsConnected
       THEN /\ ~throws
            /\ discAt' = NumCalls
            /\ UNCHANGED <<connected, host, username, client, execs, okCalls,
                           probes, probing>>
       ELSE /\ probes' = IF variant = "node-ssh" THEN probes + 1 ELSE probes
            /\ probing' = IF variant = "node-ssh" THEN probing + 1 ELSE probing
            /\ DoDisconnect(throws)
            /\ okCalls' = {}
            /\ discAt' = IF DisconnectFaults(throws) THEN discAt ELSE NumCalls
    /\ UNCHANGED <<rentVars, keyVars, termVars, unhandled, answer>>
    /\ UNCHANGED <<variant, sshClient, calls, timer, chanOpens, crashed>>

\* The manager under the ssh-disconnect tool: connect calls with a password,
\* the tool's calls, and the transports', timers' and probes' events.
NextTool ==
    \/ \E k \in CallIds : ConnectCall(k, <<"hostA", "userA">>, "password")
    \/ \E k \in CallIds : ConnectContinue(k)
    \/ \E k \in CallIds : Ready(k)
    \/ \E k \in CallIds : Fault(k)
    \/ \E k \in CallIds : TimerFire(k)
    \/ \E throws \in BOOLEAN : SshDisconnectTool(throws)
    \/ ProbeFail
    \/ ProbeOk

SpecTool == Init /\ [][NextTool]_vars

\* The manager and its status reads: connect calls with a password, disconnect
\* calls, isConnected() and getConnectionInfo() calls, over a connection that
\* the peer may end, with the probe commands settling on their own.
NextInfo ==
    \/ \E k \in CallIds, t \in Targets : ConnectCall(k, t, "password")
    \/ \E k \in CallIds : ConnectContinue(k)
    \/ \E k \in CallIds : Ready(k)
    \/ \E k \in CallIds : Fault(k)
    \/ \E k \in CallIds : Drop(k)
    \/ \E k \in CallIds : TimerFire(k)
    \/ DisconnectCall
    \/ IsConnectedCall
    \/ GetConnectionInfoCall
    \/ ProbeFail
    \/ ProbeOk

SpecInfo == Init /\ [][NextInfo]_vars

\* ------------------------------------------------------- rent-gpu-instance
\* src/src/index.ts holds two revisions of the handler:
\*   "direct"   lines 205-243: posts the create request at once
\*   "guarded"  lines 637-752: fetches the marketplace list and validates first
Revisions == {"direct", "guarded"}

ClusterNames == {"c1", "c2"}
NodeNames == {"n1", "n2"}

\* a field the marketplace left out of an entry (undefined)
Undefined == -1

\* the values of gpus_total and of gpus_reserved in the lists considered
TotalValues == {Undefined, MaxGpus}
ReservedValues == {Undefined, 1}

\* the entries of the marketplace list, as far as the handler reads them
MarketEntries ==
    [cluster_name : ClusterNames, id : NodeNames,
     gpus_total : TotalValues, gpus_reserved : ReservedValues]

Markets ==
    UNION {[1..n -> MarketEntries] : n \in 0..MaxMarket}

\* x || 0
OrZero(x) == IF x = Undefined THEN 0 ELSE x

\* instances.find(i => i.cluster_name === cluster_name && i.id === node_name):
\* the index of the first match, 0 when there is none
RECURSIVE FindFrom(_, _, _, _)
FindFrom(m, i, c, n) ==
    IF i > Len(m) THEN 0
    ELSE IF m[i].cluster_name = c /\ m[i].id = n THEN i
    ELSE FindFrom(m, i + 1, c, n)

FindInstance(m, c, n) == FindFrom(m, 1, c, n)

\* (instance.gpus_total || 0) - (instance.gpus_reserved || 0)
AvailableGPUCount(inst) == OrZero(inst.gpus_total) - OrZero(inst.gpus_reserved)

RentResult(kind) == [kind |-> kind, requested |-> 0, available |-> 0]

\* The handler returns. Its arguments are locals of the invocation.
RentDone(r, res) ==
    [r EXCEPT !.pc = "done", !.cluster_name = "none", !.node_name = "none",
              !.gpu_count = 0, !.result = res]

\* the SSH manager and the credential stage take no part in a rental
RentFrame ==
    UNCHANGED <<variant, sshClient, connected, host, username, calls, client,
                timer, execs, chanOpens, probes, crashed, okCalls, keyVars,
                infoVars, termVars, toolVars>>

\* the handler is entered: the direct revision posts the create request, the
\* guarded revision posts the marketplace query
RentCall(r, c, n, g) ==
    /\ rents[r].pc = "unused"
    /\ \A j \in RentIds : j < r => rents[j].pc # "unused"
    /\ rents' = [rents EXCEPT ![r] =
          IF revision = "direct"
          THEN [NoRent EXCEPT !.pc = "creating", !.cluster_name = c,
                              !.node_name = n, !.gpu_count = g, !.creates = 1]
          ELSE [NoRent EXCEPT !.pc = "fetching", !.cluster_name = c,
                              !.node_name = n, !.gpu_count = g, !.fetches = 1]]
    /\ UNCHANGED <<revision, market>>
    /\ RentFrame

\* The marketplace query of call r settles. ok: makeHyperbolicRequest returned
\* (it throws when the token is missing, on a network error and on a status
\* that is not ok); valid: the response carries an instances array.
RentFetched(r, ok, valid) ==
    /\ rents[r].pc = "fetching"
    /\ LET c == rents[r].cluster_name
           n == rents[r].node_name
           g == rents[r].gpu_count
           i == FindInstance(market, c, n)
       IN  rents' = [rents EXCEPT ![r] =
             IF ~ok THEN RentDone(@, RentResult("RequestFailed"))
             ELSE IF ~valid THEN RentDone(@, RentResult("InvalidResponse"))
             ELSE IF i = 0 THEN RentDone(@, RentResult("NotFound"))
             ELSE IF AvailableGPUCount(market[i]) < g
             THEN RentDone(@, [kind |-> "Insufficient", requested |-> g,
                               available |-> AvailableGPUCount(market[i])])
             ELSE [@ EXCEPT !.pc = "creating", !.creates = @ + 1]]
    /\ UNCHANGED <<revision, market>>
    /\ RentFrame

\* The create request of call r settles; the guarded revision then starts
\* wait(60000).
RentCreated(r, ok) ==
    /\ rents[r].pc = "creating"
    /\ rents' = [rents EXCEPT ![r] =
          IF ~ok THEN RentDone(@, RentResult("RequestFailed"))
          ELSE IF revision = "direct" THEN RentDone(@, RentResult("Success"))
          ELSE [@ EXCEPT !.pc = "waiting", !.waits = @ + 1]]
    /\ UNCHANGED <<revision, market>>
    /\ RentFrame

\* the timer of wait(60000) fires: the success response is returned
RentWaitDone(r) ==
    /\ rents[r].pc = "waiting"
    /\ rents' = [rents EXCEPT ![r] = RentDone(@, RentResult("Success"))]
    /\ UNCHANGED <<revision, market>>
    /\ RentFrame

\* the marketplace changes the reserved count of an entry (other renters)
MarketChange(i, v) ==
    /\ i \in 1..Len(market)
    /\ market[i].gpus_reserved # v
    /\ market' = [market EXCEPT ![i].gpus_reserved = v]
    /\ UNCHANGED <<revision, rents>>
    /\ RentFrame

InitRent ==
    /\ variant = "node-ssh"
    /\ ManagerInit
    /\ KeyIdle
    /\ TermIdle
    /\ revision \in Revisions
    /\ market \in Markets
    /\ rents = [r \in RentIds |-> NoRent]

NextRent ==
    \/ \E r \in RentIds, c \in ClusterNames, n \in NodeNames, g \in 1..(MaxGpus + 1) :
          RentCall(r, c, n, g)
    \/ \E r \in RentIds, ok \in BOOLEAN, valid \in BOOLEAN :
          RentFetched(r, ok, valid)
    \/ \E r \in RentIds, ok \in BOOLEAN : RentCreated(r, ok)
    \/ \E r \in RentIds : RentWaitDone(r)
    \/ \E i \in 1..MaxMarket, v \in ReservedValues :
          MarketChange(i, v)

SpecRent == InitRent /\ [][NextRent]_vars

\* ------------------------------------------- the credential stage of connect
\* a string in a condition: undefined and "" are false
Truthy(s) == s # Absent /\ s # <<>>

\* x || "" for an environment variable
OrEmpty(s) == IF Truthy(s) THEN s ELSE <<>>

\* the literal "~/.ssh/id_rsa"
Fallback == <<"~", "/", ".ssh", "/", "id_rsa">>

\* the path passed on as it is
ExpandHomeNone(path, home) == path

\* path.replace(/^~/, process.env.HOME || "")
ExpandHome(path, home) ==
    IF path # <<>> /\ Head(path) = "~" THEN OrEmpty(home) \o Tail(path) ELSE path

\* process.env.SSH_PRIVATE_KEY_PATH || "~/.ssh/id_rsa"
DefaultKeyPath(env) == IF Truthy(env) THEN env ELSE Fallback

ExpandedDefaultKeyPath(env, home) == ExpandHome(DefaultKeyPath(env), home)

\* privateKeyPath || expandedDefaultKeyPath
KeyPath(pk, env, home) ==
    IF Truthy(pk) THEN pk ELSE ExpandedDefaultKeyPath(env, home)

ExpandedKeyPath(pk, env, home) == ExpandHome(KeyPath(pk, env, home), home)

\* what fs.readFileSync returns for the file at path
KeyOf(path) == <<"key of">> \o path

\* the inputs considered
Passwords == {Absent, <<>>, <<"p">>}
KeyPaths == {Absent, <<>>, <<"~", "/", "k">>, <<"/", "k">>}
EnvPaths == {Absent, <<>>, <<"~", "/", "e">>, <<"/", "e">>}
Homes == {Absent, <<"/", "h">>}

\* the files the stage can ask for
FsPaths ==
    {ExpandedKeyPath(pk, env, h) : pk \in KeyPaths, env \in EnvPaths, h \in Homes}

\* `if (!fs.existsSync(expandedKeyPath)) return "SSH Key Error: Key file not
\* found at ..."`, with the error built another way
StageOnMissingAsFault(path) ==
    [NoKeyOut EXCEPT !.outcome = "connError", !.how = "returned",
                     !.checked = <<path>>, !.named = Absent]

\* `if (!fs.existsSync(expandedKeyPath)) return "SSH Key Error: Key file not
\* found at ${expandedKeyPath}"`
StageOnMissing(path) ==
    [NoKeyOut EXCEPT !.outcome = "keyError", !.how = "returned",
                     !.checked = <<path>>, !.named = path]

\* fs.readFileSync throws: the ssh2 revision returns a key error from its own
\* catch, in the node-ssh revision the exception reaches connect's catch
StageOnUnreadable(path) ==
    [NoKeyOut EXCEPT !.outcome = IF variant = "ssh2" THEN "keyError"
                                 ELSE "connError",
                     !.how = "returned",
                     !.checked = <<path>>, !.read = <<path>>,
                     !.named = IF variant = "ssh2" THEN path ELSE Absent]

\* the stage with the key file looked up before the password is considered
CredentialStageKeyFirst(in) ==
    LET path == ExpandedKeyPath(in.privateKeyPath, in.envKeyPath, in.home)
    IN  IF path \notin in.files THEN StageOnMissing(path)
        ELSE IF Truthy(in.password)
        THEN [NoKeyOut EXCEPT !.outcome = "proceed",
                              !.options.password = in.password,
                              !.checked = <<path>>,
                              !.connect = TRUE]
        ELSE IF in.unreadable THEN StageOnUnreadable(path)
        ELSE [NoKeyOut EXCEPT !.outcome = "proceed",
                              !.options.privateKey = KeyOf(path),
                              !.checked = <<path>>, !.read = <<path>>,
                              !.connect = TRUE]

\* The stage from the default key path to the call of the transport's
\* connect, for inputs and environment `in`.
CredentialStage(in) ==
    IF Truthy(in.password)
    THEN [NoKeyOut EXCEPT !.outcome = "proceed",
                          !.options.password = in.password,
                          !.connect = TRUE]
    ELSE LET path == ExpandedKeyPath(in.privateKeyPath, in.envKeyPath, in.home)
         IN  IF path \notin in.files THEN StageOnMissing(path)
             ELSE IF in.unreadable THEN StageOnUnreadable(path)
             ELSE [NoKeyOut EXCEPT !.outcome = "proceed",
                                   !.options.privateKey = KeyOf(path),
                                   !.checked = <<path>>, !.read = <<path>>,
                                   !.connect = TRUE]

\* a connect attempt runs its credential stage
RunCredentialStage ==
    /\ keyOut = NoKeyOut
    /\ keyOut' = CredentialStage(keyIn)
    /\ UNCHANGED <<keyIn, rentVars, infoVars, termVars, toolVars>>
    /\ UNCHANGED <<variant, sshClient, connected, host, username, calls, client,
                   timer, execs, chanOpens, probes, crashed, okCalls>>

InitKey ==
    /\ variant \in Variants
    /\ ManagerInit
    /\ RentIdle
    /\ TermIdle
    /\ keyIn \in [password : Passwords, privateKeyPath : KeyPaths,
                   envKeyPath : EnvPaths, home : Homes,
                   files : SUBSET FsPaths, unreadable : BOOLEAN]
    /\ keyOut = NoKeyOut

NextKey == RunCredentialStage

SpecKey == InitKey /\ [][NextKey]_vars

\* -------------------------------------------------- terminate-gpu-instance
\* ids an entry of the list can carry ("undefined": the entry has no id) and
\* ids a caller can pass ("i3" is never listed)
ListedIds == {"i1", "i2", "undefined"}
InstanceIds == {"i1", "i2", "i3"}

InstanceLists ==
    UNION {[1..n -> ListedIds] : n \in 0..MaxInstances}

RECURSIVE FindById(_, _, _)

\* a search that takes the first entry of the list whatever its id
FindByIdFirst(l, i, id) ==
    IF l = <<>> THEN 0 ELSE 1

\* instances.find(i => i.id === instance_id), from index i on: the index of
\* the first match, 0 for undefined
FindById(l, i, id) ==
    IF i > Len(l) THEN 0
    ELSE IF l[i] = id THEN i
    ELSE FindById(l, i + 1, id)

TermResult(kind, err) == [kind |-> kind, isError |-> err]

\* the handler returns: its argument is gone
TermDone(t, res) ==
    [t EXCEPT !.pc = "done", !.instance_id = "none", !.result = res]

\* the SSH manager, the rental handler and the credential stage take no part
TermFrame ==
    UNCHANGED <<variant, sshClient, connected, host, username, calls, client,
                timer, execs, chanOpens, probes, crashed, okCalls, rentVars,
                keyVars, infoVars, toolVars>>

\* the handler is entered and asks for the user's instances
TermCall(t, id) ==
    /\ terms[t].pc = "unused"
    /\ \A j \in TermIds : j < t => terms[j].pc # "unused"
    /\ terms' = [terms EXCEPT ![t].pc = "fetching", ![t].instance_id = id,
                              ![t].fetches = @ + 1]
    /\ UNCHANGED instances
    /\ TermFrame

\* The list request settles. ok: the request succeeded; valid: the body holds
\* an `instances` array, which is the service's list at that moment.
TermFetched(t, ok, valid) ==
    /\ terms[t].pc = "fetching"
    /\ IF ~ok
       THEN terms' = [terms EXCEPT ![t] = TermDone(@, TermResult("RequestFailed", TRUE))]
       ELSE IF ~valid
       THEN terms' = [terms EXCEPT ![t] = TermDone(@, TermResult("InvalidResponse", TRUE))]
       ELSE IF FindById(instances, 1, terms[t].instance_id) = 0
       THEN terms' = [terms EXCEPT ![t] = TermDone(@, TermResult("NotFound", TRUE))]
       ELSE terms' = [terms EXCEPT ![t].pc = "terminating", ![t].posts = @ + 1,
                                   ![t].posted = terms[t].instance_id]
    /\ UNCHANGED instances
    /\ TermFrame

\* The terminate request settles; when it succeeds the service has dropped
\* the entries of that id.
TermPosted(t, ok) ==
    /\ terms[t].pc = "terminating"
    /\ IF ok
       THEN /\ terms' = [terms EXCEPT ![t] = TermDone(@, TermResult("Terminated", FALSE))]
            /\ instances' = SelectSeq(instances,
                                      LAMBDA x : x # terms[t].instance_id)
       ELSE /\ terms' = [terms EXCEPT ![t] = TermDone(@, TermResult("RequestFailed", TRUE))]
            /\ UNCHANGED instances
    /\ TermFrame

\* the user's list changes on the service's side
InstancesChange(l) ==
    /\ l # instances
    /\ \E t \in TermIds : terms[t].pc # "done"
    /\ instances' = l
    /\ UNCHANGED terms
    /\ TermFrame

InitTerm ==
    /\ variant = "node-ssh"
    /\ ManagerInit
    /\ RentIdle
    /\ KeyIdle
    /\ instances \in InstanceLists
    /\ terms = [t \in TermIds |-> NoTerm]

NextTerm ==
    \/ \E t \in TermIds, id \in InstanceIds : TermCall(t, id)
    \/ \E t \in TermIds, ok \in BOOLEAN, valid \in BOOLEAN : TermFetched(t, ok, valid)
    \/ \E t \in TermIds, ok \in BOOLEAN : TermPosted(t, ok)
    \/ \E l \in InstanceLists : InstancesChange(l)

SpecTerm == InitTerm /\ [][NextTerm]_vars

\* ------------------------------------------------------------------ claims

\* C1: after a connect call has returned success, and until the next connect
\* or disconnect call or a transport fault, isConnected() is true and
\* getConnectionInfo() reports the host and username passed to that call.
C1_SuccessIsReported ==
    \A k \in okCalls :
        /\ IsConnected
        /\ GetConnectionInfo = <<"connected", calls[k].target[1], calls[k].target[2]>>

\* C2: when the timer of a connect attempt fires before its transport has
\* signalled ready or fault, the call ends with the timeout outcome, the
\* manager is Disconnected and holds no transport handle.
C2_TimeoutLeavesNothing ==
    [][\A k \in CallIds :
          (TimerFire(k) /\ calls[k].pc = "pending" /\ client[k].phase = "opening")
          => /\ calls'[k].outcome = "timeout"
             /\ State' = "Disconnected"
             /\ sshClient' = 0]_vars

\* C3: an execute call made while the manager is Disconnected returns the
\* NotConnected outcome and makes no channel-open call on any transport.
C3_ExecuteWhileDisconnected ==
    [][\A e \in ExecIds :
          (ExecuteCall(e) /\ State = "Disconnected")
          => /\ execs'[e].pc = "done"
             /\ execs'[e].result.kind = "NotConnected"
             /\ chanOpens' = chanOpens
             /\ probes' = probes]_vars

\* an execute call was refused on a manager that holds the client of an
\* earlier session or attempt and is Disconnected
C3_Witness ==
    \E e \in ExecIds :
        /\ execs[e].result.kind = "NotConnected"
        /\ execs[e].on # 0
        /\ chanOpens[e] = 0
        /\ State = "Disconnected"

C5_OneCloseBeforeReopen ==
    \A k \in CallIds :
        (calls[k].prev # 0 /\ client[k].phase \in {"opening", "ready", "faulted"})
        => client[calls[k].prev].closes = 1

\* C6: at most one transport is opened and not closed, and it is the one the
\* manager holds.
C6_AtMostOneSession ==
    /\ Cardinality(OpenTransports) <= 1
    /\ OpenTransports \subseteq {sshClient}

\* C7: the manager holds a transport handle exactly when its state is
\* Connecting or Connected.
C7_HandleIffActive ==
    (sshClient # 0) <=> (State \in {"Connecting", "Connected"})

\* C8: every connect call that ends in a failure outcome leaves isConnected()
\* false and no host or username recorded.
C8_NoPartialConnect ==
    [][\A k \in CallIds :
          (calls[k].pc # "done" /\ calls'[k].pc = "done"
             /\ calls'[k].outcome # "success")
          => /\ ~IsConnected'
             /\ host' = "null"
             /\ username' = "null"]_vars

\* C9: the signals of one attempt are disarmed once one of them has decided
\* it: the timer of an attempt whose transport is ready closes nothing, and a
\* ready or fault signal of an attempt that timed out changes neither the
\* connected flag nor host nor username.
C9_OtherSignalsDisarmed ==
    [][\A k \in CallIds :
          /\ (TimerFire(k) /\ client[k].phase = "ready") => client' = client
          /\ ((Ready(k) \/ Fault(k)) /\ calls[k].outcome = "timeout")
                => UNCHANGED <<connected, host, username>>]_vars

\* C10: no connect call ends in a rejected promise: every failure is a
\* returned outcome.
C10_NoFaultEscapes ==
    \A k \in CallIds : calls[k].how # "rejected"

\* C11: at most one command channel is open at a time on a session: a second
\* execute call made before the first has completed is delayed or refused.
C11_OneChannelAtATime ==
    Cardinality(OpenChannels) <= 1

\* C12: an execute call that was in flight when disconnect was called ends
\* with the command-error outcome, never with the command's output.
C12_CutExecuteIsCommandError ==
    \A e \in SessionExecIds :
        (execs[e].pc = "done" /\ execs[e].cut)
        => execs[e].result.kind = "CommandError"

\* C13: a transport fault met by an execute call (the channel-open callback
\* gets an error, the transport's exec call throws, or the connection faults
\* while the command runs) leaves the manager Disconnected and ends the call
\* with a command-error outcome.
C13_ChannelFaultDisconnects ==
    [][\A e \in SessionExecIds :
          /\ ExecOpenFail(e)
                => /\ State' = "Disconnected"
                   /\ execs'[e].result.kind = "CommandError"
          /\ (ExecuteCall(e) /\ execs'[e].result.kind = "ExecutionError")
                => State' = "Disconnected"
          /\ (ExecClose(e) /\ client[execs[e].on].phase = "faulted")
                => /\ State' = "Disconnected"
                   /\ execs'[e].result.kind \in {"CommandError", "ExecutionError"}]_vars

\* C14: when the channel of an execute call closes, the call returns the
\* error form with the whole error text and the whole output text if at least
\* one byte arrived on the error stream, and the whole output text alone
\* otherwise.
C14_ErrorFormIffStderrBytes ==
    [][\A e \in SessionExecIds :
          ExecClose(e)
          => IF Len(execs[e].err) > 0
             THEN execs'[e].result = [kind |-> "ErrorOutput",
                                      stderr |-> execs[e].err,
                                      stdout |-> execs[e].out]
             ELSE execs'[e].result = [kind |-> "Output",
                                      stderr |-> <<>>,
                                      stdout |-> execs[e].out]]_vars

\* C15: for a candidate with total and reserved counts and a requested count,
\* rent-gpu-instance submits the create request exactly once when
\* requested <= total - reserved; when requested > total - reserved it
\* submits nothing and returns the insufficient-capacity error that names the
\* requested and the available count.
C15_CreateIffCapacity ==
    [][\A r \in RentIds :
          LET q == IF rents[r].pc = "unused" THEN rents'[r] ELSE rents[r]
              g == q.gpu_count
              i == FindInstance(market, q.cluster_name, q.node_name)
              known == /\ i # 0
                       /\ market[i].gpus_total # Undefined
                       /\ market[i].gpus_reserved # Undefined
              cap == market[i].gpus_total - market[i].gpus_reserved
          IN  /\ rents'[r].creates <= 1
              /\ (rents[r].pc = "unused" /\ rents'[r].pc # "unused"
                     /\ known /\ g > cap)
                    => rents'[r].creates = 0
              /\ (RentFetched(r, TRUE, TRUE) /\ known)
                    => IF g <= cap
                       THEN rents'[r].creates = 1
                       ELSE /\ rents'[r].creates = 0
                            /\ rents'[r].result =
                                  [kind |-> "Insufficient", requested |-> g,
                                   available |-> cap]]_vars

\* C16: every rent-gpu-instance call fetches the candidate list itself, and
\* when no entry of the list matches both the cluster name and the node
\* identifier supplied it returns the candidate-not-found error and submits
\* no create request.
C16_RefetchAndNotFound ==
    [][\A r \in RentIds :
          LET q == IF rents[r].pc = "unused" THEN rents'[r] ELSE rents[r]
              absent == FindInstance(market, q.cluster_name, q.node_name) = 0
          IN  /\ rents'[r].pc # "unused" => rents'[r].fetches = 1
              /\ (rents[r].pc = "unused" /\ rents'[r].pc # "unused" /\ absent)
                    => rents'[r].creates = 0
              /\ (RentFetched(r, TRUE, TRUE) /\ absent)
                    => /\ rents'[r].creates = 0
                       /\ rents'[r].result.kind = "NotFound"]_vars

\* C17: when no password is supplied and the resolved key file does not
\* exist, the credential stage ends the attempt with a returned key-error
\* outcome that names the resolved path, and the transport's connect
\* operation is not invoked.
C17_MissingKeyIsReturnedKeyError ==
    LET path == ExpandedKeyPath(keyIn.privateKeyPath, keyIn.envKeyPath, keyIn.home)
    IN  (keyOut # NoKeyOut /\ keyIn.password = Absent /\ path \notin keyIn.files)
        => /\ keyOut.outcome = "keyError"
           /\ keyOut.how = "returned"
           /\ keyOut.named = path
           /\ ~keyOut.connect
           /\ keyOut.options = NoKeyOut.options

\* an attempt without password whose key path ~/k resolves to /h/k, which does
\* not exist, has ended with the key error naming /h/k
C17_Witness ==
    /\ keyIn.password = Absent
    /\ keyIn.privateKeyPath = <<"~", "/", "k">>
    /\ keyIn.home = <<"/", "h">>
    /\ <<"/", "h", "/", "k">> \notin keyIn.files
    /\ keyOut.outcome = "keyError"
    /\ keyOut.named = <<"/", "h", "/", "k">>

\* C18 as stated: whenever a password is supplied, the attempt uses the
\* password only: the key file is not looked up, no key error can result, and
\* an attempt that reaches the transport carries exactly one of password and
\* key material.
C18_PasswordTakesPrecedence ==
    keyOut # NoKeyOut
    => /\ keyIn.password # Absent
            => /\ keyOut.options.password = keyIn.password
               /\ keyOut.options.privateKey = Absent
               /\ keyOut.checked = <<>>
               /\ keyOut.read = <<>>
               /\ keyOut.outcome # "keyError"
       /\ keyOut.connect
            => (keyOut.options.password = Absent) # (keyOut.options.privateKey = Absent)

\* C18 amended: whenever a non-empty password is supplied, the attempt uses
\* the password only: the key file is not looked up, no key error can result;
\* an attempt that reaches the transport carries exactly one of password and
\* key material.
C18_NonEmptyPasswordTakesPrecedence ==
    keyOut # NoKeyOut
    => /\ (keyIn.password # Absent /\ keyIn.password # <<>>)
            => /\ keyOut.options.password = keyIn.password
               /\ keyOut.options.privateKey = Absent
               /\ keyOut.checked = <<>>
               /\ keyOut.read = <<>>
               /\ keyOut.outcome = "proceed"
       /\ keyOut.connect
            => (keyOut.options.password = Absent) # (keyOut.options.privateKey = Absent)

\* an attempt with a password and an explicit key path whose file does not
\* exist has gone on to the transport with the password alone
C18_Witness ==
    /\ keyIn.password = <<"p">>
    /\ keyIn.privateKeyPath = <<"/", "k">>
    /\ <<"/", "k">> \notin keyIn.files
    /\ keyOut.connect
    /\ keyOut.options = [password |-> <<"p">>, privateKey |-> Absent]

C20_DisconnectClearsDespiteFault ==
    [][(DisconnectWith(TRUE) \/ DisconnectWith(FALSE))
          => /\ ~IsConnected'
             /\ connected' = FALSE
             /\ host' = "null"
             /\ username' = "null"]_vars

\* C21: the settle delay of rent-gpu-instance is applied exactly once, after
\* the create request has succeeded and before the success response; it is
\* not applied when validation or the create request fails.
C21_SettleDelayOnce ==
    \A r \in RentIds :
        /\ rents[r].waits <= 1
        /\ rents[r].waits = 1 => rents[r].creates = 1
        /\ rents[r].result.kind = "Success" => rents[r].waits = 1
        /\ rents[r].result.kind \in {"NotFound", "Insufficient", "InvalidResponse",
                                     "RequestFailed"}
              => rents[r].waits = 0

\* C22: an execute call gets a command result only from the close event of
\* its channel, and that result holds all the output and error data that
\* arrived before the close; nothing else (no timer, no partial read) ends
\* the call with a command result.
C22_ResultOnlyAtClose ==
    [][\A e \in SessionExecIds :
          (execs[e].pc # "done" /\ execs'[e].pc = "done"
             /\ execs'[e].result.kind \in {"Output", "ErrorOutput"})
          => /\ execs[e].pc = "streaming"
             /\ ExecClose(e)
             /\ execs'[e].result.stdout = execs[e].out
             /\ execs'[e].result.stderr = execs[e].err]_vars

\* C23: an execute call on a connected session makes exactly one channel-open
\* call on the transport; nothing else (such as a liveness probe) opens a
\* channel on its behalf.
C23_OneChannelPerExecute ==
    \A e \in SessionExecIds :
        /\ chanOpens[e] <= 1
        /\ (execs[e].pc \in {"opening", "streaming"}
               \/ execs[e].result.kind \in {"Output", "ErrorOutput"})
              => chanOpens[e] = 1

\* C24: isConnected() answers true only in state Connected, and when a probe
\* command it has sent fails, the manager is Disconnected afterwards.
C24_ProbeFailureDisconnects ==
    [][/\ (IsConnectedCall /\ answer'.value = <<"true">>) => State = "Connected"
       /\ ProbeFail => State' = "Disconnected"]_vars

\* C25: getConnectionInfo() changes none of the connected flag, host, username
\* and client reference, and it answers with "connected", the stored host and
\* the stored username exactly when the manager is connected, and with "not
\* connected" otherwise.
C25_InfoIsPureRead ==
    [][GetConnectionInfoCall =>
         /\ UNCHANGED <<sshClient, connected, host, username>>
         /\ State' = State
         /\ IF IsConnected
            THEN answer'.value = <<"connected", host, username>>
            ELSE answer'.value = <<"not connected">>]_vars

\* C25: getConnectionInfo() has reported a session that is connected
C25_Witness ==
    /\ answer = [op |-> "getConnectionInfo",
                 value |-> <<"connected", "hostA", "userA">>]
    /\ IsConnected
    /\ host = "hostA"

C27_TerminateOnlyListed ==
    [][\A t \in TermIds :
          /\ terms'[t].posts > terms[t].posts
                => /\ terms[t].pc = "fetching"
                   /\ terms[t].fetches = 1
                   /\ terms[t].posts = 0
                   /\ \E i \in 1..Len(instances) : instances[i] = terms[t].instance_id
                   /\ terms'[t].posted = terms[t].instance_id
          /\ (/\ terms[t].pc = "fetching"
              /\ terms'[t].pc # "fetching"
              /\ \A i \in 1..Len(instances) : instances[i] # terms[t].instance_id)
                => /\ terms'[t].pc = "done"
                   /\ terms'[t].result.isError
                   /\ terms'[t].posts = 0]_vars

\* C27: one call has terminated a listed instance, and another call, for an id
\* the list did not hold, has been refused
C27_Witness ==
    /\ terms[1].result.kind = "Terminated"
    /\ terms[1].posted = "i1"
    /\ terms[2].result.kind = "NotFound"
    /\ terms[2].posts = 0

\* C28: when a connect call that was made on a connected manager ends with a
\* key error, a connection error or a timeout, the manager is Disconnected
\* and the transport of the earlier session has been closed.
C28_FailedReconnectLeavesNothing ==
    [][\A k \in CallIds :
          (/\ calls[k].pc # "done"
           /\ calls'[k].pc = "done"
           /\ calls'[k].prev # 0
           /\ calls'[k].outcome \in {"keyError", "connError", "timeout"})
            => /\ State' = "Disconnected"
               /\ client'[calls'[k].prev].down]_vars

\* C29: once a later connect call has started, a ready or fault signal of an
\* earlier attempt's transport changes none of the connected flag, host and
\* username, and the timer of an earlier attempt closes no later attempt's
\* transport.
C29_LateSignalsAreInert ==
    [][\A k \in CallIds :
          (\E j \in CallIds : j > k /\ calls[j].pc # "unused") =>
             /\ (Ready(k) \/ Fault(k)) => UNCHANGED <<connected, host, username>>
             /\ TimerFire(k) => \A j \in CallIds : j > k => client'[j] = client[j]]_vars

\* C30: every connect call that has been made resolves in the end, whatever
\* disconnect and connect calls are made while it is in flight.
C30_EveryConnectResolves ==
    \A k \in CallIds : (calls[k].pc # "unused") ~> (calls[k].pc = "done")

\* C31: the remote-shell response is marked as an error exactly when execute
\* ended with not-connected, error-stream output, a channel-open fault or an
\* exception during exec, and as success exactly when the command completed
\* without error-stream output, whatever it wrote to its output stream.
C31_ShellErrorIffErrorOutcome ==
    \A e \in SessionExecIds :
        execs[e].pc = "done" =>
           /\ execs[e].response = "error"
                 <=> execs[e].result.kind \in {"NotConnected", "ErrorOutput",
                                               "CommandError", "ExecutionError"}
           /\ execs[e].response = "success" <=> execs[e].result.kind = "Output"

\* C32: from the moment ssh-disconnect has returned its success response
\* until the next connect call is made, the manager is not connected; a
\* connect attempt that was in flight at that moment does not connect it.
C32_StaysDisconnectedAfterTool ==
    discAt = NumCalls => ~IsConnected

\* C33: when the transport of the session the manager holds has been closed
\* or dropped by the remote side, isConnected() answers false and
\* getConnectionInfo() answers "not connected".
C33_ClosedTransportNotReported ==
    [][(sshClient # 0 /\ client[sshClient].down) =>
          /\ IsConnectedCall => answer'.value = <<"false">>
          /\ GetConnectionInfoCall => answer'.value = <<"not connected">>]_vars

\* C34: when a rent-gpu-instance call submits its create request while another
\* call for the same cluster and node has submitted one and is still running,
\* the GPU counts of the two together do not exceed the available count
\* (total minus reserved) of that node as the marketplace lists it at that
\* moment, which is what the guard of the submitting call sees.
C34_NoCombinedOversubscription ==
    [][\A r, q \in RentIds :
          (/\ q # r
           /\ rents'[r].creates > rents[r].creates
           /\ rents[q].pc \in {"creating", "waiting"}
           /\ rents[q].cluster_name = rents'[r].cluster_name
           /\ rents[q].node_name = rents'[r].node_name
           /\ FindInstance(market, rents'[r].cluster_name, rents'[r].node_name) # 0)
            => rents'[r].gpu_count + rents[q].gpu_count
                  <= AvailableGPUCount(
                        market[FindInstance(market, rents'[r].cluster_name,
                                            rents'[r].node_name)])]_vars

\* C35: while the connect attempt on the client the manager holds is in
\* flight, isConnected() is false, and an execute call returns the
\* not-connected result and opens no channel.
C35_ConnectingIsNotConnected ==
    [][(\E k \in CallIds :
          \/ calls[k].pc = "awaitDisconnect"
          \/ calls[k].pc = "pending" /\ sshClient = k)
        => /\ ~IsConnected
           /\ \A e \in ExecIds :
                 ExecuteCall(e) => /\ execs'[e].result.kind = "NotConnected"
                                   /\ chanOpens' = chanOpens]_vars

\* C36: when a connect call ends, whether its promise resolved or rejected,
\* ssh-connect has a response; the response is an error exactly when the call
\* ended with a key error, a connection error or a timeout, and a success
\* exactly when the manager is connected at that moment.
C36_ConnectResponseMatchesOutcome ==
    [][\A k \in CallIds :
          (calls[k].pc # "done" /\ calls'[k].pc = "done") =>
             /\ calls'[k].response \in {"success", "error"}
             /\ calls'[k].response = "error"
                   <=> calls'[k].outcome \in {"keyError", "connError", "timeout"}
             /\ calls'[k].response = "success" <=> IsConnected']_vars

\* C36: ssh-connect has answered a rejected connect promise with an error and
\* another call with success
C36_Witness ==
    /\ calls[1].how = "rejected"
    /\ calls[1].response = "error"
    /\ calls[2].response = "success"
    /\ IsConnected

====
